---- MODULE Spec2Model ----
(***************************************************************************)
(* Document question-answering service (app/main.py and app/services).     *)
(* A request carries one document URL and a list of questions.  It is      *)
(* validated, the document is chunked, the chunks are embedded into a      *)
(* namespace of one persistent Pinecone index, a RAG chain is built, and   *)
(* every question is answered in a retry loop of at most three attempts    *)
(* whose outcome is written to the query-history table.                    *)
(***************************************************************************)
EXTENDS Integers, Sequences, FiniteSets, TLC

VARIABLES
    req,                \* per handler task: the locals of run_submission
    served,             \* number of requests that have arrived so far
    index_exists,       \* Pinecone: the index "hackrx-final" exists
    pinecone,           \* Pinecone: namespace -> chunk record -> number of vectors
    document_metadata,  \* table document_metadata: document_hash -> row or NoRow
    query_sessions,     \* table query_sessions: sequence of rows
    query_history,      \* table query_history: sequence of rows
    last_run,           \* per locator: chunks and vector count of the last finished get_vectorstore
    index_ready,        \* Pinecone: the index reports ready
    pdf,                \* one call of process_document_from_url: its locals and the temporary file
    gen                 \* the chain of one question: model, attempt, raw output, chain output, verdict

vars == <<req, served, index_exists, pinecone, document_metadata,
          query_sessions, query_history, last_run, index_ready, pdf, gen>>

-----------------------------------------------------------------------------
(* Bounds of the model *)

MaxRequests == 2   \* requests served one after the other
MaxChunks == 2     \* chunks a processed document yields at most
MaxBatch == 2      \* longest question list that is enumerated in full

(* Program constants *)

max_retries == 3          \* main.py:86
QuestionCap == 25         \* main.py:172
MinAnswerLen == 15        \* main.py:106
GenericLenLimit == 100    \* main.py:112
NamespaceWidth == 8       \* vector_store_manager.py:33
RetrieverK == 8           \* rag_chain.py:58

Tasks == {1}

-----------------------------------------------------------------------------
(* Inputs *)

DocA == "https://example.com/policy_a.pdf"
DocB == "https://example.com/policy_9857.pdf"
DocC == "https://example.com/policy_43816.pdf"

Locators == {"", DocA, DocB, DocC}

\* hashlib.md5(url.encode()).hexdigest(), tabulated for the locators of the model
\* (the digests of DocB and DocC agree in their first eight digits)
Md5Hex(url) ==
    CASE url = DocA ->
           <<"1","4","1","1","8","9","1","2","a","e","b","4","b","e","c","e",
             "1","2","b","4","7","2","1","f","c","c","4","9","3","e","0","f">>
      [] url = DocB ->
           <<"c","3","5","1","9","3","2","7","b","d","2","b","d","c","4","0",
             "8","1","b","c","a","e","b","8","b","b","1","7","1","3","a","3">>
      [] url = DocC ->
           <<"c","3","5","1","9","3","2","7","6","f","7","1","e","a","9","3",
             "3","4","b","f","e","9","d","e","5","5","2","5","3","8","3","7">>
      [] OTHER ->
           <<"d","4","1","d","8","c","d","9","8","f","0","0","b","2","0","4",
             "e","9","8","0","0","9","9","8","e","c","f","8","4","2","7","e">>

\* document_hash = hashlib.md5(request.documents.encode()).hexdigest()
DocumentHash(url) == Md5Hex(url)

\* a plausible slip: one namespace for every document
NamespaceShared(url) == SubSeq(Md5Hex(DocA), 1, NamespaceWidth)

\* namespace = hashlib.md5(document_url.encode()).hexdigest()[:8]
Namespace(url) == SubSeq(Md5Hex(url), 1, NamespaceWidth)

Namespaces == {Namespace(u) : u \in Locators}
Hashes == {DocumentHash(u) : u \in Locators}

\* question texts, as sequences of characters
Questions == {<<" ">>, <<" ", "Q">>}

\* str.isspace() for the characters of the model
IsSpace(c) == c \in {" ", "\n"}

RECURSIVE LStrip(_)
LStrip(s) == IF s # <<>> /\ IsSpace(Head(s)) THEN LStrip(Tail(s)) ELSE s

RECURSIVE RStrip(_)
RStrip(s) ==
    IF s # <<>> /\ IsSpace(s[Len(s)]) THEN RStrip(SubSeq(s, 1, Len(s) - 1)) ELSE s

\* str.strip()
Strip(s) == RStrip(LStrip(s))

SeqsUpTo(S, n) == UNION {[1..k -> S] : k \in 0..n}

\* question lists: every short list, a list of exactly the cap and one over the cap
QuestionLists ==
    SeqsUpTo(Questions, MaxBatch)
        \cup {[i \in 1..QuestionCap |-> <<" ">>],
              [i \in 1..(QuestionCap + 1) |-> <<" ", "Q">>]}

\* the chunks process_document_from_url returns for a locator: metadata source and chunk_id
ChunkRecs == [source : Locators \ {""}, chunk_id : 0..(MaxChunks - 1)]

ChunksOf(url, n) == [i \in 1..n |-> [source |-> url, chunk_id |-> i - 1]]

\* texts the chain can return: length (already stripped by the chain) and
\* whether the lowercased text contains one of the generic phrases
ModelOutputs ==
    {[origin |-> "model", len |-> MinAnswerLen, generic |-> FALSE],
     [origin |-> "model", len |-> MinAnswerLen + 1, generic |-> FALSE],
     [origin |-> "model", len |-> GenericLenLimit - 1, generic |-> TRUE],
     [origin |-> "model", len |-> GenericLenLimit, generic |-> TRUE]}

\* the two texts the code itself returns
InvalidQuestionText ==
    [origin |-> "code", text |-> "Invalid question provided."]
SentinelText ==
    [origin |-> "code",
     text |-> "This specific information is not detailed in the available policy sections."]

NoValue == [none |-> TRUE]

-----------------------------------------------------------------------------
(* State after start-up *)

IdleTask ==
    [pc |-> "idle", request_no |-> 0,
     documents |-> "", questions |-> <<>>,
     document_cached |-> FALSE, cache_namespace |-> NoValue,
     session_id |-> 0,
     chunked_docs |-> <<>>, namespace |-> NoValue, vectorstore |-> NoValue,
     i |-> 0, attempt |-> 0, answer |-> NoValue, answers |-> <<>>,
     retrieved |-> {},
     exc |-> "", status |-> 0,
     response |-> NoValue,
     \* bookkeeping of the verification, not read by the handler
     embed_calls |-> 0, vectors_before |-> 0, prev_run |-> NoValue,
     invocations |-> 0, rejected |-> 0, failures |-> 0, last_outcome |-> "",
     in_flight |-> 0,
     results |-> <<>>, failed_stage |-> "", raised |-> FALSE]

Init ==
    /\ req = [t \in Tasks |-> IdleTask]
    /\ served = 0
    /\ index_exists = FALSE
    /\ pinecone = [ns \in Namespaces |-> [c \in ChunkRecs |-> 0]]
    /\ document_metadata = [h \in Hashes |-> NoValue]
    /\ query_sessions = <<>>
    /\ query_history = <<>>
    /\ last_run = [u \in Locators |-> NoValue]
    /\ index_ready = FALSE
    /\ pdf = NoValue
    /\ gen = NoValue

Set(t, r) == req' = [req EXCEPT ![t] = r]

RECURSIVE SumOver(_, _)
SumOver(f, S) ==
    IF S = {} THEN 0
    ELSE LET x == CHOOSE y \in S : TRUE IN f[x] + SumOver(f, S \ {x})

\* number of vectors a namespace holds
VectorCount(ns) == SumOver(pinecone[ns], ChunkRecs)

-----------------------------------------------------------------------------
(* run_submission: arrival and input validation *)

\* a request is handed to the handler; its locals start fresh
Arrive(t) ==
    /\ req[t].pc = "idle"
    /\ served < MaxRequests
    /\ \E d \in Locators, qs \in QuestionLists :
           Set(t, [IdleTask EXCEPT !.pc = "validate", !.request_no = served + 1,
                                   !.documents = d, !.questions = qs])
    /\ served' = served + 1
    /\ UNCHANGED <<index_exists, pinecone, document_metadata,
                   query_sessions, query_history, last_run, index_ready, pdf, gen>>

\* a slip: the cap on the number of questions is not enforced
PreflightNoCap(documents, questions) ==
    IF documents = "" \/ questions = <<>> THEN "required" ELSE "ok"

\* the two pre-flight checks
Preflight(documents, questions) ==
    IF documents = "" \/ questions = <<>> THEN "required"
    ELSE IF Len(questions) > QuestionCap THEN "too_many"
    ELSE "ok"

\* raise HTTPException(code, ...) as it leaves run_submission
RaiseHTTP(r, code) ==
    [r EXCEPT !.pc = "responded", !.response = [status |-> code, answers |-> NoValue]]

Validate(t) ==
    LET r == req[t] IN
    /\ r.pc = "validate"
    /\ IF Preflight(r.documents, r.questions) = "ok"
       THEN Set(t, [r EXCEPT !.pc = "check_cached"])
       ELSE Set(t, RaiseHTTP(r, 400))
    /\ UNCHANGED <<served, index_exists, pinecone, document_metadata,
                   query_sessions, query_history, last_run, index_ready, pdf, gen>>

\* DatabaseService.check_document_cached
CheckCached(t) ==
    LET r == req[t]
        row == document_metadata[DocumentHash(r.documents)] IN
    /\ r.pc = "check_cached"
    /\ \/ Set(t, [r EXCEPT !.pc = "create_session",
                           !.document_cached = (row # NoValue),
                           !.cache_namespace =
                               IF row # NoValue THEN row.pinecone_namespace ELSE <<>>])
       \/ Set(t, [r EXCEPT !.pc = "outer_except", !.exc = "db"])
    /\ UNCHANGED <<served, index_exists, pinecone, document_metadata,
                   query_sessions, query_history, last_run, index_ready, pdf, gen>>

\* DatabaseService.create_query_session: a fresh session id (uuid4, here the
\* ordinal of the request), status "processing"
CreateSession(t) ==
    LET r == req[t]
        sid == r.request_no IN
    /\ r.pc = "create_session"
    /\ \/ /\ query_sessions' = Append(query_sessions,
                [session_id |-> sid,
                 document_url |-> r.documents,
                 document_hash |-> DocumentHash(r.documents),
                 pinecone_namespace |-> r.cache_namespace,
                 total_questions |-> Len(r.questions),
                 status |-> "processing"])
          /\ Set(t, [r EXCEPT !.pc = "ingest", !.session_id = sid])
       \/ /\ Set(t, [r EXCEPT !.pc = "outer_except", !.exc = "db"])
          /\ UNCHANGED query_sessions
    /\ UNCHANGED <<served, index_exists, pinecone, document_metadata,
                   query_history, last_run, index_ready, pdf, gen>>

\* a slip: the update writes the processing time and leaves the status as it was
UpdateSessionTimeOnly(sid, status) == query_sessions

\* DatabaseService.update_session_completion: the row of the session, if any, gets the status
UpdateSessionCompletion(sid, status) ==
    [k \in 1..Len(query_sessions) |->
        IF query_sessions[k].session_id = sid
        THEN [query_sessions[k] EXCEPT !.status = status]
        ELSE query_sessions[k]]

-----------------------------------------------------------------------------
(* run_submission: failure handlers *)

NextStage(stage) ==
    CASE stage = "ingestion" -> "gv_setup"
      [] stage = "indexing" -> "build_chain"
      [] OTHER -> "q_loop"

\* a slip: the handler records the failure and falls through to the next step
StageFailedFallThrough(r) == [r EXCEPT !.pc = NextStage(r.failed_stage)]

\* raise HTTPException(400 | 500, "... failed: ...") of a step's handler
StageFailedRaise(r) == RaiseHTTP(r, r.status)

\* a step failed: enter its except block
FailStage(r, stage, code) ==
    [r EXCEPT !.pc = "stage_failed", !.failed_stage = stage, !.status = code]

\* except block of steps 1-3: mark the session failed, then raise
StageFailed(t) ==
    LET r == req[t] IN
    /\ r.pc = "stage_failed"
    /\ \/ /\ query_sessions' = UpdateSessionCompletion(r.session_id, "failed")
          /\ Set(t, StageFailedRaise(r))
       \/ /\ Set(t, [r EXCEPT !.pc = "outer_except", !.exc = "db"])
          /\ UNCHANGED query_sessions
    /\ UNCHANGED <<served, index_exists, pinecone, document_metadata,
                   query_history, last_run, index_ready, pdf, gen>>

\* outermost except Exception: mark the session "error" when there is one, answer 500
OuterExcept(t) ==
    LET r == req[t] IN
    /\ r.pc = "outer_except"
    /\ IF r.session_id # 0
       THEN \/ /\ query_sessions' = UpdateSessionCompletion(r.session_id, "error")
               /\ Set(t, RaiseHTTP(r, 500))
            \/ /\ Set(t, [RaiseHTTP(r, 500) EXCEPT !.exc = "unhandled"])
               /\ UNCHANGED query_sessions
       ELSE /\ Set(t, RaiseHTTP(r, 500))
            /\ UNCHANGED query_sessions
    /\ UNCHANGED <<served, index_exists, pinecone, document_metadata,
                   query_history, last_run, index_ready, pdf, gen>>

RowsNotOf(table, sid) == SelectSeq(table, LAMBDA row : row.session_id # sid)

\* The response has been sent and the locals of the handler are gone.  The rows
\* of the session stay in the database, but every later statement selects by
\* the session id of its own request, so they are archived out of the state.
Finish(t) ==
    /\ req[t].pc = "responded"
    /\ Set(t, IdleTask)
    /\ query_sessions' = RowsNotOf(query_sessions, req[t].session_id)
    /\ query_history' = RowsNotOf(query_history, req[t].session_id)
    /\ UNCHANGED <<served, index_exists, pinecone, document_metadata, last_run,
                   index_ready, pdf, gen>>

-----------------------------------------------------------------------------
(* run_submission, step 1: process_document_from_url *)

\* the call raises, or returns the chunks of the document (possibly none, which
\* run_submission turns into the same failure)
Ingest(t) ==
    LET r == req[t] IN
    /\ r.pc = "ingest"
    /\ \/ Set(t, FailStage(r, "ingestion", 400))
       \/ \E n \in 0..MaxChunks :
            IF n = 0
            THEN Set(t, FailStage(r, "ingestion", 400))
            ELSE Set(t, [r EXCEPT !.pc = "gv_setup",
                                  !.chunked_docs = ChunksOf(r.documents, n)])
    /\ UNCHANGED <<served, index_exists, pinecone, document_metadata,
                   query_sessions, query_history, last_run, index_ready, pdf, gen>>

-----------------------------------------------------------------------------
(* run_submission, step 2: get_vectorstore and store_document_metadata *)

\* Pinecone(api_key) and HuggingFaceEmbeddings(...): either may fail
GVSetup(t) ==
    LET r == req[t]
        ns == Namespace(r.documents) IN
    /\ r.pc = "gv_setup"
    /\ \/ Set(t, [r EXCEPT !.pc = "gv_list",
                           !.vectors_before = VectorCount(ns),
                           !.prev_run = last_run[r.documents]])
       \/ Set(t, FailStage(r, "indexing", 500))
    /\ UNCHANGED <<served, index_exists, pinecone, document_metadata,
                   query_sessions, query_history, last_run, index_ready, pdf, gen>>

\* existing_indexes = pc.list_indexes().names(); index_name not in existing_indexes
GVListIndexes(t) ==
    LET r == req[t] IN
    /\ r.pc = "gv_list"
    /\ \/ Set(t, [r EXCEPT !.pc = IF index_exists THEN "gv_insert" ELSE "gv_create"])
       \/ Set(t, FailStage(r, "indexing", 500))
    /\ UNCHANGED <<served, index_exists, pinecone, document_metadata,
                   query_sessions, query_history, last_run, index_ready, pdf, gen>>

\* pc.create_index(...): the index exists from now on and initializes in the
\* background.  Creating an index that exists is refused.
GVCreateIndex(t) ==
    LET r == req[t] IN
    /\ r.pc = "gv_create"
    /\ \/ /\ ~index_exists
          /\ index_exists' = TRUE
          /\ Set(t, [r EXCEPT !.pc = "gv_sleep"])
       \/ /\ Set(t, FailStage(r, "indexing", 500))
          /\ UNCHANGED index_exists
    /\ UNCHANGED <<served, pinecone, document_metadata,
                   query_sessions, query_history, last_run, index_ready, pdf, gen>>

\* time.sleep(10): the call goes on after the pause, whatever the index reports
GVSleep(t) ==
    LET r == req[t] IN
    /\ r.pc = "gv_sleep"
    /\ Set(t, [r EXCEPT !.pc = "gv_insert"])
    /\ UNCHANGED <<served, index_exists, pinecone, document_metadata,
                   query_sessions, query_history, last_run, index_ready, pdf, gen>>

\* Pinecone finishes initializing the index, at a moment of its own choosing
IndexBecomesReady ==
    /\ index_exists
    /\ ~index_ready
    /\ index_ready' = TRUE
    /\ UNCHANGED <<req, served, index_exists, pinecone, document_metadata,
                   query_sessions, query_history, last_run, pdf, gen>>

\* the vectors of a namespace after one more vector per chunk is upserted under a fresh id
Upsert(part, chunks) ==
    [c \in ChunkRecs |->
        part[c] + Cardinality({k \in 1..Len(chunks) : chunks[k] = c})]

\* PineconeVectorStore.from_documents: embeds every chunk and upserts it into the
\* namespace; returns the store bound to that namespace
GVInsert(t) ==
    LET r == req[t]
        ns == Namespace(r.documents) IN
    /\ r.pc = "gv_insert"
    /\ \/ /\ pinecone' = [pinecone EXCEPT ![ns] = Upsert(@, r.chunked_docs)]
          /\ Set(t, [r EXCEPT !.pc = "store_meta",
                              !.vectorstore = [namespace |-> ns],
                              !.namespace = ns,
                              !.embed_calls = @ + Len(r.chunked_docs)])
          /\ last_run' = [last_run EXCEPT ![r.documents] =
                              [chunks |-> r.chunked_docs,
                               count |-> VectorCount(ns) + Len(r.chunked_docs)]]
       \/ /\ Set(t, FailStage(r, "indexing", 500))
          /\ UNCHANGED <<pinecone, last_run>>
    /\ UNCHANGED <<served, index_exists, document_metadata,
                   query_sessions, query_history, index_ready, pdf, gen>>

\* DatabaseService.store_document_metadata: bump the access count of the row
\* with this hash, or insert a row
StoreDocumentMetadata(hash, namespace, total_chunks) ==
    [document_metadata EXCEPT ![hash] =
        IF @ # NoValue
        THEN [@ EXCEPT !.access_count = @ + 1]
        ELSE [pinecone_namespace |-> namespace,
              total_chunks |-> total_chunks,
              access_count |-> 1]]

\* if not document_cached: store_document_metadata(...)
StoreMeta(t) ==
    LET r == req[t] IN
    /\ r.pc = "store_meta"
    /\ IF r.document_cached
       THEN /\ Set(t, [r EXCEPT !.pc = "build_chain",
                                 !.vectors_before = 0, !.prev_run = NoValue])
            /\ UNCHANGED document_metadata
       ELSE \/ /\ document_metadata' =
                     StoreDocumentMetadata(DocumentHash(r.documents), r.namespace,
                                           Len(r.chunked_docs))
               /\ Set(t, [r EXCEPT !.pc = "build_chain",
                                    !.vectors_before = 0, !.prev_run = NoValue])
            \/ /\ Set(t, FailStage(r, "indexing", 500))
               /\ UNCHANGED document_metadata
    /\ UNCHANGED <<served, index_exists, pinecone,
                   query_sessions, query_history, last_run, index_ready, pdf, gen>>

-----------------------------------------------------------------------------
(* run_submission, step 3: get_rag_chain *)

BuildChain(t) ==
    LET r == req[t] IN
    /\ r.pc = "build_chain"
    /\ \/ Set(t, [r EXCEPT !.pc = "q_loop", !.i = 1])
       \/ Set(t, FailStage(r, "chain", 500))
    /\ UNCHANGED <<served, index_exists, pinecone, document_metadata,
                   query_sessions, query_history, last_run, index_ready, pdf, gen>>

-----------------------------------------------------------------------------
(* run_submission, step 4: the question loop and                           *)
(* process_single_question_with_retries_and_logging                        *)

\* for i, question in enumerate(request.questions, 1): call the function for question i
QLoop(t) ==
    LET r == req[t] IN
    /\ r.pc = "q_loop"
    /\ IF r.i <= Len(r.questions)
       THEN Set(t, [r EXCEPT !.pc = "q_attempt", !.attempt = 0, !.answer = NoValue])
       ELSE Set(t, [r EXCEPT !.pc = "complete"])
    /\ UNCHANGED <<served, index_exists, pinecone, document_metadata,
                   query_sessions, query_history, last_run, index_ready, pdf, gen>>

\* return of process_single_question_with_retries_and_logging
Return(r, text) ==
    [r EXCEPT !.pc = "q_returned", !.answer = text,
              !.results = Append(@, [question_number |-> r.i,
                                     question |-> r.questions[r.i],
                                     text |-> text])]

\* head of "for attempt in range(max_retries)" and the blank-question check
QAttempt(t) ==
    LET r == req[t]
        clean_question == Strip(r.questions[r.i]) IN
    /\ r.pc = "q_attempt"
    /\ IF r.attempt >= max_retries
       THEN Set(t, Return(r, SentinelText))
       ELSE IF clean_question = <<>>
            THEN Set(t, Return(r, InvalidQuestionText))
            ELSE Set(t, [r EXCEPT !.pc = "q_invoke"])
    /\ UNCHANGED <<served, index_exists, pinecone, document_metadata,
                   query_sessions, query_history, last_run, index_ready, pdf, gen>>

\* the chunks a similarity query through the store can return
Stored(vectorstore) == {c \in ChunkRecs : pinecone[vectorstore.namespace][c] > 0}

\* rag_chain.invoke starts: the retriever queries the namespace of the store
InvokeStart(t) ==
    LET r == req[t] IN
    /\ r.pc = "q_invoke"
    /\ \E docs \in SUBSET Stored(r.vectorstore) :
          /\ Cardinality(docs) <= RetrieverK
          /\ Set(t, [r EXCEPT !.pc = "q_invoking", !.retrieved = docs,
                              !.invocations = @ + 1, !.in_flight = @ + 1])
    /\ UNCHANGED <<served, index_exists, pinecone, document_metadata,
                   query_sessions, query_history, last_run, index_ready, pdf, gen>>

\* a slip: a retry does not use up an attempt
NextAttemptSame(attempt) == attempt

\* the next value of the loop variable
NextAttempt(attempt) == attempt + 1

\* a slip: an answer of exactly the minimum length is let through
LongEnoughInclusive(answer) == answer.len >= MinAnswerLen

\* len(answer.strip()) > 15
LongEnough(answer) == answer.len > MinAnswerLen

\* any(phrase in answer.lower() ...) and len(answer) < 100
GenericShort(answer) == answer.generic /\ answer.len < GenericLenLimit

\* a slip: whatever the last attempt yields is accepted
VerdictAcceptLast(answer, attempt) ==
    IF attempt = max_retries - 1 THEN "accept"
    ELSE IF ~LongEnough(answer) THEN "retry_short"
    ELSE IF GenericShort(answer) THEN "retry_generic"
    ELSE "accept"

\* the quality check of one attempt's answer
Verdict(answer, attempt) ==
    IF LongEnough(answer)
    THEN IF GenericShort(answer) /\ attempt < max_retries - 1
         THEN "retry_generic"
         ELSE "accept"
    ELSE "retry_short"

\* how an attempt's generation ended, whatever the attempt number
Outcome(answer) ==
    IF ~LongEnough(answer) THEN "short"
    ELSE IF GenericShort(answer) THEN "generic"
    ELSE "good"

\* rag_chain.invoke ends: it raised, or returned a text that is then validated
InvokeEnd(t) ==
    LET r == req[t] IN
    /\ r.pc = "q_invoking"
    /\ \/ Set(t, [r EXCEPT !.pc = "q_except", !.retrieved = {},
                           !.in_flight = @ - 1,
                           !.rejected = @ + 1, !.failures = @ + 1,
                           !.last_outcome = "failed"])
       \/ \E answer \in ModelOutputs :
            Set(t, [r EXCEPT !.retrieved = {},
                             !.in_flight = @ - 1,
                             !.answer = answer,
                             !.rejected = IF Outcome(answer) = "good" THEN @ ELSE @ + 1,
                             !.last_outcome = Outcome(answer),
                             !.pc = IF Verdict(answer, r.attempt) = "accept"
                                    THEN "q_log_ok" ELSE "q_attempt",
                             !.attempt = IF Verdict(answer, r.attempt) = "accept"
                                         THEN @ ELSE NextAttempt(@)])
    /\ UNCHANGED <<served, index_exists, pinecone, document_metadata,
                   query_sessions, query_history, last_run, index_ready, pdf, gen>>

\* DatabaseService.log_query_history: one more row
LogQueryHistory(session_id, question, answer, question_number, retry_count) ==
    Append(query_history,
           [session_id |-> session_id, question |-> question, answer |-> answer,
            question_number |-> question_number, retry_count |-> retry_count])

\* the accepted answer is logged and returned; a failing write lands in the except block
LogOk(t) ==
    LET r == req[t] IN
    /\ r.pc = "q_log_ok"
    /\ \/ /\ query_history' = LogQueryHistory(r.session_id, Strip(r.questions[r.i]),
                                              r.answer, r.i, r.attempt)
          /\ Set(t, Return(r, r.answer))
       \/ /\ Set(t, [r EXCEPT !.pc = "q_except"])
          /\ UNCHANGED query_history
    /\ UNCHANGED <<served, index_exists, pinecone, document_metadata,
                   query_sessions, last_run, index_ready, pdf, gen>>

\* except Exception: the last attempt goes on to log the sentinel, an earlier one retries
QExcept(t) ==
    LET r == req[t] IN
    /\ r.pc = "q_except"
    /\ IF r.attempt = max_retries - 1
       THEN Set(t, [r EXCEPT !.pc = "q_log_fail"])
       ELSE Set(t, [r EXCEPT !.pc = "q_attempt", !.attempt = NextAttempt(@)])
    /\ UNCHANGED <<served, index_exists, pinecone, document_metadata,
                   query_sessions, query_history, last_run, index_ready, pdf, gen>>

\* inside the except block: log the sentinel and return it; a failing write
\* leaves the function as an exception
LogFail(t) ==
    LET r == req[t] IN
    /\ r.pc = "q_log_fail"
    /\ \/ /\ query_history' = LogQueryHistory(r.session_id, Strip(r.questions[r.i]),
                                              SentinelText, r.i, max_retries)
          /\ Set(t, Return(r, SentinelText))
       \/ /\ Set(t, [r EXCEPT !.pc = "outer_except", !.exc = "db", !.raised = TRUE])
          /\ UNCHANGED query_history
    /\ UNCHANGED <<served, index_exists, pinecone, document_metadata,
                   query_sessions, last_run, index_ready, pdf, gen>>

\* a slip: the newest answer is put in front
PrependAnswer(answers, answer) == <<answer>> \o answers

\* answers.append(answer)
AppendAnswer(answers, answer) == Append(answers, answer)

\* a slip: the loop passes over a question
SkipQuestion(i) == i + 2

\* enumerate(request.questions, 1): the number of the next question
NextQuestion(i) == i + 1

\* back in the loop of run_submission
QReturned(t) ==
    LET r == req[t] IN
    /\ r.pc = "q_returned"
    /\ Set(t, [r EXCEPT !.pc = "q_loop", !.answers = AppendAnswer(@, r.answer),
                        !.i = NextQuestion(@),
                        !.invocations = 0, !.rejected = 0, !.failures = 0,
                        !.last_outcome = ""])
    /\ UNCHANGED <<served, index_exists, pinecone, document_metadata,
                   query_sessions, query_history, last_run, index_ready, pdf, gen>>

\* step 5: mark the session completed and return {"answers": answers}
Complete(t) ==
    LET r == req[t] IN
    /\ r.pc = "complete"
    /\ \/ /\ query_sessions' = UpdateSessionCompletion(r.session_id, "completed")
          /\ Set(t, [r EXCEPT !.pc = "responded",
                              !.response = [status |-> 200, answers |-> r.answers]])
       \/ /\ Set(t, [r EXCEPT !.pc = "outer_except", !.exc = "db"])
          /\ UNCHANGED query_sessions
    /\ UNCHANGED <<served, index_exists, pinecone, document_metadata,
                   query_history, last_run, index_ready, pdf, gen>>

-----------------------------------------------------------------------------
(* Specification: requests are served one after the other *)

Next ==
    \/ IndexBecomesReady
    \/ \E t \in Tasks :
        \/ Arrive(t) \/ Validate(t) \/ CheckCached(t) \/ CreateSession(t)
        \/ Ingest(t)
        \/ GVSetup(t) \/ GVListIndexes(t) \/ GVCreateIndex(t) \/ GVSleep(t)
        \/ GVInsert(t)
        \/ StoreMeta(t) \/ BuildChain(t)
        \/ QLoop(t) \/ QAttempt(t) \/ InvokeStart(t) \/ InvokeEnd(t)
        \/ LogOk(t) \/ QExcept(t) \/ LogFail(t) \/ QReturned(t)
        \/ Complete(t)
        \/ StageFailed(t) \/ OuterExcept(t) \/ Finish(t)

Spec == Init /\ [][Next]_vars

-----------------------------------------------------------------------------
(* Specification: two requests are handled at the same time.  Both have     *)
(* passed validation; each runs run_submission up to the end of its         *)
(* indexing step or to its error response.                                  *)

RaceTasks == {1, 2}

RaceDocs == {DocA, DocB}

\* the locals of a handler whose request has been validated
Validated(n, d) ==
    [IdleTask EXCEPT !.pc = "check_cached", !.request_no = n,
                     !.documents = d, !.questions = << <<" ", "Q">> >>]

InitRace ==
    /\ \E d \in [RaceTasks -> RaceDocs] :
           req = [t \in RaceTasks |-> Validated(t, d[t])]
    /\ served = Cardinality(RaceTasks)
    /\ index_exists = FALSE
    /\ index_ready = FALSE
    /\ pinecone = [ns \in Namespaces |-> [c \in ChunkRecs |-> 0]]
    /\ document_metadata = [h \in Hashes |-> NoValue]
    /\ query_sessions = <<>>
    /\ query_history = <<>>
    /\ last_run = [u \in Locators |-> NoValue]
    /\ pdf = NoValue
    /\ gen = NoValue

NextRace ==
    \/ IndexBecomesReady
    \/ \E t \in RaceTasks :
        \/ CheckCached(t) \/ CreateSession(t)
        \/ Ingest(t)
        \/ GVSetup(t) \/ GVListIndexes(t) \/ GVCreateIndex(t) \/ GVSleep(t)
        \/ GVInsert(t)
        \/ StoreMeta(t)
        \/ StageFailed(t) \/ OuterExcept(t)

SpecRace == InitRace /\ [][NextRace]_vars

-----------------------------------------------------------------------------
(* Properties *)

\* C1: process_single_question_with_retries_and_logging never raises to
\* run_submission, also when generation fails on every attempt or when the
\* write of the query-history row fails.
C1_NeverRaises == \A t \in Tasks : ~req[t].raised

\* C2: when each of the three attempts of a question ended in a generation
\* failure, a too-short answer or a short generic answer, the text returned is
\* the fixed sentinel text.
C2_ExhaustedReturnsSentinel ==
    \A t \in Tasks :
        (req[t].pc = "q_returned" /\ req[t].rejected = max_retries)
            => req[t].answer = SentinelText

\* C2, amended: in that case the text returned is the fixed sentinel text, or
\* the short generic answer the third attempt has just produced (longer than
\* the minimum length), which the last attempt no longer rejects; it is never
\* another model-generated text.
C2_ExhaustedReturnsSentinelOrLastGeneric ==
    \A t \in Tasks :
        (req[t].pc = "q_returned" /\ req[t].rejected = max_retries)
            => \/ req[t].answer = SentinelText
               \/ /\ req[t].answer \in ModelOutputs
                  /\ req[t].attempt = max_retries - 1
                  /\ req[t].last_outcome = "generic"
                  /\ req[t].answer.generic
                  /\ req[t].answer.len < GenericLenLimit
                  /\ req[t].answer.len > MinAnswerLen

C2_Witness ==
    \E t \in Tasks :
        /\ req[t].pc = "q_returned"
        /\ req[t].rejected = max_retries
        /\ req[t].failures = max_retries - 1
        /\ req[t].answer \in ModelOutputs

\* C3: for every question the chain is invoked at most three times, and the
\* call ends with an accepted model answer after at least one invocation, with
\* the sentinel after all three, or with the blank-question text after none.
C3_AtMostThreeInvocations ==
    \A t \in Tasks :
        /\ req[t].invocations <= max_retries
        /\ req[t].pc = "q_returned" =>
              \/ req[t].answer \in ModelOutputs /\ req[t].invocations >= 1
              \/ req[t].answer = SentinelText /\ req[t].invocations = max_retries
              \/ req[t].answer = InvalidQuestionText /\ req[t].invocations = 0

C3_Witness ==
    \E t \in Tasks :
        /\ req[t].pc = "q_returned"
        /\ req[t].invocations = max_retries
        /\ req[t].failures = 1
        /\ req[t].answer = SentinelText

\* C4: running get_vectorstore a second time with the same locator and the
\* same chunks leaves the vector count of the namespace where the first run left it.
C4_SecondRunKeepsCount ==
    \A t \in Tasks :
        (/\ req[t].pc = "store_meta"
         /\ req[t].prev_run # NoValue
         /\ req[t].prev_run.chunks = req[t].chunked_docs)
            => VectorCount(req[t].namespace) = req[t].prev_run.count

\* C5: when the namespace of the locator already holds vectors, get_vectorstore
\* returns the store without embedding any chunk.
C5_CacheHitEmbedsNothing ==
    \A t \in Tasks :
        (req[t].pc = "store_meta" /\ req[t].vectors_before > 0)
            => req[t].embed_calls = 0

\* C6: a similarity query through the store of a request returns only chunks
\* of that request's document, and no namespace holds chunks of two documents.
C6_PartitionIsolation ==
    /\ \A t \in Tasks : \A c \in req[t].retrieved : c.source = req[t].documents
    /\ \A ns \in Namespaces :
          \A c, d \in {x \in ChunkRecs : pinecone[ns][x] > 0} : c.source = d.source

\* the first eight digits of two locators' MD5 digests agree
SamePrefix(u, v) ==
    \A k \in 1..NamespaceWidth : Md5Hex(u)[k] = Md5Hex(v)[k]

\* C6, amended: a similarity query through the store of a request returns
\* only chunks of locators whose MD5 digest starts with the same eight digits
\* as the request's locator, and no namespace holds chunks of two locators
\* whose digests differ in those digits.
C6_IsolationUpToPrefix ==
    /\ \A t \in Tasks :
          \A c \in req[t].retrieved : SamePrefix(c.source, req[t].documents)
    /\ \A ns \in Namespaces :
          \A c, d \in {x \in ChunkRecs : pinecone[ns][x] > 0} :
              SamePrefix(c.source, d.source)

C6_Witness ==
    \E t \in Tasks :
        /\ req[t].documents = DocB
        /\ req[t].retrieved # {}
        /\ \E c \in ChunkRecs : c.source = DocA /\ pinecone[Namespace(DocA)][c] > 0

\* C7: a request with an empty documents URL, an empty question list or more
\* than 25 questions is answered 400 before anything is processed: no session
\* row, no download, no embedding, no insertion, no generation call.
C7_PreflightRejection ==
    \A t \in Tasks :
        (/\ req[t].pc # "idle"
         /\ \/ req[t].documents = ""
            \/ req[t].questions = <<>>
            \/ Len(req[t].questions) > QuestionCap)
            => /\ req[t].pc \in {"validate", "responded"}
               /\ req[t].pc = "responded" => req[t].response.status = 400
               /\ req[t].session_id = 0
               /\ \A k \in 1..Len(query_sessions) :
                     query_sessions[k].session_id # req[t].request_no
               /\ req[t].chunked_docs = <<>>
               /\ req[t].embed_calls = 0
               /\ req[t].vectorstore = NoValue
               /\ req[t].invocations = 0

C7_Witness ==
    \E t \in Tasks :
        /\ req[t].pc = "responded"
        /\ req[t].documents # ""
        /\ Len(req[t].questions) = QuestionCap + 1
        /\ req[t].response.status = 400

\* C8: a request that returns a response returns as many answers as it had
\* questions, and answer k is what the call for question k returned.
C8_AnswersMatchQuestions ==
    \A t \in Tasks :
        (req[t].pc = "responded" /\ req[t].response.status = 200)
            => /\ Len(req[t].response.answers) = Len(req[t].questions)
               /\ Len(req[t].results) = Len(req[t].questions)
               /\ \A k \in 1..Len(req[t].questions) :
                     /\ req[t].results[k].question_number = k
                     /\ req[t].results[k].question = req[t].questions[k]
                     /\ req[t].response.answers[k] = req[t].results[k].text

C8_Witness ==
    \E t \in Tasks :
        /\ req[t].pc = "responded"
        /\ req[t].response.status = 200
        /\ Len(req[t].questions) = 2
        /\ req[t].response.answers[1] = SentinelText
        /\ req[t].response.answers[2] = InvalidQuestionText

\* C9: a question whose three generation attempts all fail does not end the
\* request: its call returns, the later questions are processed, and the
\* request does not become an error response because of it.
C9_ExhaustionNeverAborts ==
    \A t \in Tasks :
        (req[t].failures = max_retries /\ req[t].i < Len(req[t].questions))
            => req[t].pc \notin {"outer_except", "responded"}

\* C10: when ingestion or indexing fails the request is aborted with one error
\* response: no question reaches the generation chain and no answers are returned.
C10_StageFailureAborts ==
    \A t \in Tasks :
        req[t].failed_stage \in {"ingestion", "indexing"}
            => /\ req[t].pc \in {"stage_failed", "outer_except", "responded"}
               /\ req[t].i = 0
               /\ req[t].invocations = 0
               /\ req[t].answers = <<>>
               /\ req[t].pc = "responded" =>
                     /\ req[t].response.status \in {400, 500}
                     /\ req[t].response.answers = NoValue

C10_Witness ==
    \E t \in Tasks :
        /\ req[t].pc = "responded"
        /\ req[t].failed_stage = "indexing"
        /\ pinecone[Namespace(req[t].documents)] = [c \in ChunkRecs |-> 0]
        /\ req[t].response.status = 500

-----------------------------------------------------------------------------
(* Properties of two concurrent requests *)

\* the content of a namespace after a single ingestion of the chunks
SingleIngestion(chunks) == Upsert([c \in ChunkRecs |-> 0], chunks)

\* C15: when two concurrent requests for the same document both see a cache
\* miss and both insert the same chunks, the namespace ends up with the content
\* a single ingestion of the document leaves.
C15_RaceInsertionIdempotent ==
    \A t, u \in RaceTasks :
        (/\ t # u
         /\ req[t].documents = req[u].documents
         /\ ~req[t].document_cached /\ ~req[u].document_cached
         /\ req[t].vectorstore # NoValue /\ req[u].vectorstore # NoValue
         /\ req[t].chunked_docs = req[u].chunked_docs)
            => pinecone[Namespace(req[t].documents)]
                   = SingleIngestion(req[t].chunked_docs)

\* C16: a call of get_vectorstore that found the index absent is never refused
\* its creation because the other call has created the index in between: no
\* call stands at create_index while the index exists.
C16_CreateNeverRefused ==
    \A t \in RaceTasks : req[t].pc = "gv_create" => ~index_exists

\* C19: get_vectorstore inserts vectors only into an index that has reported
\* ready: no call stands at the insertion while the index is still initializing.
C19_InsertOnlyWhenReady ==
    \A t \in RaceTasks : req[t].pc = "gv_insert" => index_ready

-----------------------------------------------------------------------------
(* Text as sequences of characters: the string operations of                *)
(* document_processor.py and rag_chain.py                                   *)

LowerChars ==
    <<"a", "b", "c", "d", "e", "f", "g", "h", "i", "j", "k", "l", "m",
      "n", "o", "p", "q", "r", "s", "t", "u", "v", "w", "x", "y", "z">>
UpperChars ==
    <<"A", "B", "C", "D", "E", "F", "G", "H", "I", "J", "K", "L", "M",
      "N", "O", "P", "Q", "R", "S", "T", "U", "V", "W", "X", "Y", "Z">>
Digits == {"0", "1", "2", "3", "4", "5", "6", "7", "8", "9"}

Range(s) == {s[i] : i \in 1..Len(s)}

\* [a-z], [A-Z], \d, [A-Za-z]
IsLower(c) == c \in Range(LowerChars)
IsUpper(c) == c \in Range(UpperChars)
IsDigit(c) == c \in Digits
IsLetter(c) == IsLower(c) \/ IsUpper(c)

\* str.lower() and str.upper() of one character
LowerChar(c) ==
    IF IsUpper(c) THEN LowerChars[CHOOSE k \in 1..Len(UpperChars) : UpperChars[k] = c]
    ELSE c
UpperChar(c) ==
    IF IsLower(c) THEN UpperChars[CHOOSE k \in 1..Len(LowerChars) : LowerChars[k] = c]
    ELSE c

\* str.lower()
ToLower(s) == [i \in 1..Len(s) |-> LowerChar(s[i])]

\* s[i:].startswith(w), positions counted from 1
StartsAt(s, i, w) ==
    /\ i >= 1
    /\ i + Len(w) - 1 <= Len(s)
    /\ \A j \in 1..Len(w) : s[i + j - 1] = w[j]

\* w in s
Contains(s, w) == \E i \in 1..(Len(s) - Len(w) + 1) : StartsAt(s, i, w)

\* the pieces p[lo..hi] joined
RECURSIVE JoinRange(_, _, _)
JoinRange(p, lo, hi) ==
    IF lo > hi THEN <<>>
    ELSE IF lo = hi THEN p[lo]
    ELSE LET mid == (lo + hi) \div 2 IN
         JoinRange(p, lo, mid) \o JoinRange(p, mid + 1, hi)

\* "".join(p)
Join(p) == JoinRange(p, 1, Len(p))

\* the last position before i, and the first after i, that holds no whitespace
\* (0 and Len(s) + 1 when there is none)
RECURSIVE PrevNonSpace(_, _)
PrevNonSpace(s, i) ==
    IF i <= 1 THEN 0
    ELSE IF ~IsSpace(s[i - 1]) THEN i - 1
    ELSE PrevNonSpace(s, i - 1)

RECURSIVE NextNonSpace(_, _)
NextNonSpace(s, i) ==
    IF i >= Len(s) THEN Len(s) + 1
    ELSE IF ~IsSpace(s[i + 1]) THEN i + 1
    ELSE NextNonSpace(s, i + 1)

\* re.sub(r'\s+', ' ', s)
NormalizeWhitespace(s) ==
    Join([i \in 1..Len(s) |->
            IF ~IsSpace(s[i]) THEN <<s[i]>>
            ELSE IF i > 1 /\ IsSpace(s[i - 1]) THEN <<>>
            ELSE <<" ">>])

\* re.sub(r'([a-z])([A-Z])', r'\1 \2', s)
SplitConcatenatedWords(s) ==
    Join([i \in 1..Len(s) |->
            IF i < Len(s) /\ IsLower(s[i]) /\ IsUpper(s[i + 1])
            THEN <<s[i], " ">> ELSE <<s[i]>>])

\* re.sub(r'(\d+)([A-Za-z])', r'\1 \2', s)
SplitNumberLetter(s) ==
    Join([i \in 1..Len(s) |->
            IF i < Len(s) /\ IsDigit(s[i]) /\ IsLetter(s[i + 1])
            THEN <<s[i], " ">> ELSE <<s[i]>>])

\* position i is whitespace standing between a number and one of the words
BetweenNumberAnd(s, i, words) ==
    /\ IsSpace(s[i])
    /\ PrevNonSpace(s, i) >= 1
    /\ IsDigit(s[PrevNonSpace(s, i)])
    /\ \E w \in words : StartsAt(s, NextNonSpace(s, i), w)

\* position i is the last digit of a number that one of the words follows,
\* directly or after whitespace
NumberBefore(s, i, words) ==
    /\ IsDigit(s[i])
    /\ \E w \in words : StartsAt(s, NextNonSpace(s, i), w)

\* re.sub(r'(\d+)\s*%', r'\1%', s)
FixPercent(s) ==
    Join([i \in 1..Len(s) |->
            IF BetweenNumberAnd(s, i, {<<"%">>}) THEN <<>> ELSE <<s[i]>>])

\* re.sub(r'(\d+)\s*(w1|w2|...)', r'\1 \2', s)
SpaceNumberFrom(s, words) ==
    Join([i \in 1..Len(s) |->
            IF BetweenNumberAnd(s, i, words) THEN <<>>
            ELSE IF NumberBefore(s, i, words) THEN <<s[i], " ">>
            ELSE <<s[i]>>])

\* years?|days?|months?  and  lakhs?|crores?  (the optional s is copied either way)
TimeWords == {<<"y", "e", "a", "r">>, <<"d", "a", "y">>, <<"m", "o", "n", "t", "h">>}
AmountWords == {<<"l", "a", "k", "h">>, <<"c", "r", "o", "r", "e">>}

\* re.sub(r'\n\s*\n\s*\n+', '\n\n', s): in a stretch of whitespace with three
\* or more line breaks, what lies from the first to the last of them becomes two
CollapseBlankLines(s) ==
    Join([i \in 1..Len(s) |->
            IF ~IsSpace(s[i]) THEN <<s[i]>>
            ELSE LET breaks == {j \in (PrevNonSpace(s, i) + 1)..(NextNonSpace(s, i) - 1) :
                                    s[j] = "\n"}
                     first == CHOOSE j \in breaks : \A k \in breaks : j <= k
                     last == CHOOSE j \in breaks : \A k \in breaks : k <= j
                 IN IF Cardinality(breaks) < 3 \/ i < first \/ i > last THEN <<s[i]>>
                    ELSE IF i = first THEN <<"\n", "\n">>
                    ELSE <<>>])

\* s repeated n times
Repeat(s, n) == [i \in 1..(n * Len(s)) |-> s[((i - 1) % Len(s)) + 1]]

-----------------------------------------------------------------------------
(* process_document_from_url *)

MaxPages == 2          \* pages a downloaded document has at most

MinChunkLen == 40      \* document_processor.py:72
chunk_size == 800      \* document_processor.py:46
chunk_overlap == 100   \* document_processor.py:47

(* Page texts as PyPDFLoader extracts them *)

\* a scanned page: no text layer
PageBlank == <<>>

\* "  Page 3 of 12\n"
PageFooter ==
    <<" ", " ", "P", "a", "g", "e", " ", "3", " ", "o", "f", " ", "1", "2",
      "\n">>

\* "The policy can be revived within 2years of lapse.\n"
PageRevival ==
    <<"T", "h", "e", " ", "p", "o", "l", "i", "c", "y", " ", "c", "a", "n",
      " ", "b", "e", " ", "r", "e", "v", "i", "v", "e", "d", " ", "w", "i",
      "t", "h", "i", "n", " ", "2", "y", "e", "a", "r", "s", " ", "o", "f",
      " ", "l", "a", "p", "s", "e", ".", "\n">>

\* "Death benefit is paid if premium payment is up to date."
PageDeathPremium ==
    <<"D", "e", "a", "t", "h", " ", "b", "e", "n", "e", "f", "i", "t", " ",
      "i", "s", " ", "p", "a", "i", "d", " ", "i", "f", " ", "p", "r", "e",
      "m", "i", "u", "m", " ", "p", "a", "y", "m", "e", "n", "t", " ", "i",
      "s", " ", "u", "p", " ", "t", "o", " ", "d", "a", "t", "e", ".">>

\* "This document is issued by the company to the holder."
PagePlain ==
    <<"T", "h", "i", "s", " ", "d", "o", "c", "u", "m", "e", "n", "t", " ",
      "i", "s", " ", "i", "s", "s", "u", "e", "d", " ", "b", "y", " ", "t",
      "h", "e", " ", "c", "o", "m", "p", "a", "n", "y", " ", "t", "o", " ",
      "t", "h", "e", " ", "h", "o", "l", "d", "e", "r", ".">>

\* "Grace period of 30 days and 5 % interest, 10lakhs cover for 3   years"
PageRates ==
    <<"G", "r", "a", "c", "e", " ", "p", "e", "r", "i", "o", "d", " ", "o",
      "f", " ", "3", "0", " ", "d", "a", "y", "s", " ", "a", "n", "d", " ",
      "5", " ", "%", " ", "i", "n", "t", "e", "r", "e", "s", "t", ",", " ",
      "1", "0", "l", "a", "k", "h", "s", " ", "c", "o", "v", "e", "r", " ",
      "f", "o", "r", " ", "3", " ", " ", " ", "y", "e", "a", "r", "s">>

\* "Schedule", thirty blanks, "Part B": a line of a table
PageTable ==
    <<"S", "c", "h", "e", "d", "u", "l", "e">>
        \o [i \in 1..30 |-> " "] \o <<"P", "a", "r", "t", " ", "B">>

\* "AgeAtEntry" 79 times: a table header extracted without its blanks, 790 characters
PageHeader == Repeat(<<"A", "g", "e", "A", "t", "E", "n", "t", "r", "y">>, 79)

PageTexts ==
    {PageBlank, PageFooter, PageRevival, PageDeathPremium, PagePlain, PageRates,
     PageTable, PageHeader}

\* the keyword lists of the if/elif chain, in its order
Lexicon ==
    <<[category |-> "age_eligibility",
       keywords |-> {<<"a", "g", "e">>,
                     <<"e", "n", "t", "r", "y">>,
                     <<"e", "l", "i", "g", "i", "b", "i", "l", "i", "t", "y">>,
                     <<"m", "i", "n", "i", "m", "u", "m">>,
                     <<"m", "a", "x", "i", "m", "u", "m">>}],
      [category |-> "benefits",
       keywords |-> {<<"m", "a", "t", "u", "r", "i", "t", "y">>,
                     <<"b", "e", "n", "e", "f", "i", "t">>,
                     <<"s", "u", "m", " ", "a", "s", "s", "u", "r", "e", "d">>,
                     <<"d", "e", "a", "t", "h">>}],
      [category |-> "premium",
       keywords |-> {<<"p", "r", "e", "m", "i", "u", "m">>,
                     <<"p", "a", "y", "m", "e", "n", "t">>,
                     <<"f", "r", "e", "q", "u", "e", "n", "c", "y">>,
                     <<"m", "o", "d", "e">>}],
      [category |-> "riders",
       keywords |-> {<<"r", "i", "d", "e", "r">>,
                     <<"a", "d", "d", "-", "o", "n">>,
                     <<"a", "d", "d", "i", "t", "i", "o", "n", "a", "l">>,
                     <<"o", "p", "t", "i", "o", "n", "a", "l">>}],
      [category |-> "loan_surrender",
       keywords |-> {<<"l", "o", "a", "n">>,
                     <<"s", "u", "r", "r", "e", "n", "d", "e", "r">>,
                     <<"a", "d", "v", "a", "n", "c", "e">>}],
      [category |-> "free_look",
       keywords |-> {<<"f", "r", "e", "e", " ", "l", "o", "o", "k">>,
                     <<"c", "a", "n", "c", "e", "l", "l", "a", "t", "i", "o", "n">>,
                     <<"c", "o", "o", "l", "i", "n", "g">>}],
      [category |-> "exclusions",
       keywords |-> {<<"s", "u", "i", "c", "i", "d", "e">>,
                     <<"e", "x", "c", "l", "u", "s", "i", "o", "n">>,
                     <<"e", "x", "c", "e", "p", "t", "i", "o", "n">>}],
      [category |-> "revival",
       keywords |-> {<<"r", "e", "v", "i", "v", "a", "l">>,
                     <<"l", "a", "p", "s", "e">>,
                     <<"r", "e", "i", "n", "s", "t", "a", "t", "e", "m", "e", "n", "t">>}],
      [category |-> "tax_benefits",
       keywords |-> {<<"t", "a", "x">>,
                     <<"8", "0", "c">>,
                     <<"1", "0", "(", "1", "0", "d", ")">>,
                     <<"d", "e", "d", "u", "c", "t", "i", "o", "n">>}]>>
\* "keyword in content_lower" for some keyword of the list
AnyKeyword(content_lower, keywords) ==
    \E w \in keywords : Contains(content_lower, w)

\* the entries of the chain whose condition holds for the text
Hits(content) ==
    LET content_lower == ToLower(content) IN
    {k \in 1..Len(Lexicon) : AnyKeyword(content_lower, Lexicon[k].keywords)}

\* doc.metadata['category']: the first branch of the if/elif chain that applies
Category(content) ==
    LET hits == Hits(content) IN
    IF hits = {} THEN "general"
    ELSE Lexicon[CHOOSE k \in hits : \A h \in hits : k <= h].category

\* every category one of whose keywords occurs in the text
MatchingCategories(content) == {Lexicon[k].category : k \in Hits(content)}

\* lines 76-87: the cleaning of a chunk's text
CleanContent(content) ==
    Strip(CollapseBlankLines(
        SpaceNumberFrom(
            SpaceNumberFrom(
                FixPercent(SplitNumberLetter(SplitConcatenatedWords(
                    NormalizeWhitespace(content)))),
                TimeWords),
            AmountWords)))

\* text_splitter.split_documents for pages of at most chunk_size characters:
\* such a page comes back as one chunk, stripped, and a blank page as none
SplitDocuments(documents) ==
    SelectSeq([p \in 1..Len(documents) |-> Strip(documents[p])],
              LAMBDA text : text # <<>>)

\* the chunk appended for a text that is long enough
EnhancedChunk(content, url, enhanced_chunks) ==
    LET cleaned == CleanContent(content) IN
    [page_content |-> cleaned,
     chunk_id |-> Len(enhanced_chunks),
     source |-> url,
     chunk_length |-> Len(cleaned),
     content_type |-> "insurance_policy",
     category |-> Category(cleaned)]

\* a slip: the temporary file is left behind
KeepTempFile(exists) == exists

\* if os.path.exists(temp_pdf_path): os.remove(temp_pdf_path)
RemoveTempFile(exists) == IF exists THEN FALSE ELSE exists

\* the locals of a call that has just been entered
PdfCall(url) ==
    [pc |-> "tempfile", url |-> url, temp_file |-> FALSE,
     documents |-> <<>>, chunked_docs |-> <<>>, k |-> 0,
     enhanced_chunks |-> <<>>, error |-> "", outcome |-> "",
     \* bookkeeping of the verification: per appended chunk, the length of the
     \* text before cleaning and the categories whose keywords occur in it
     raw_length |-> <<>>, matching |-> <<>>]

OtherVars ==
    <<req, served, index_exists, pinecone, document_metadata,
      query_sessions, query_history, last_run, index_ready>>

\* with tempfile.NamedTemporaryFile(delete=False, suffix='.pdf'): the file exists from here on
PdfCreateTemp ==
    /\ pdf.pc = "tempfile"
    /\ pdf' = [pdf EXCEPT !.pc = "download", !.temp_file = TRUE]
    /\ UNCHANGED <<OtherVars, gen>>

\* requests.get, raise_for_status and the copy into the temporary file
PdfDownload ==
    /\ pdf.pc = "download"
    /\ \/ pdf' = [pdf EXCEPT !.pc = "load"]
       \/ \E e \in {"timeout", "connection", "http", "other"} :
            pdf' = [pdf EXCEPT !.pc = "except", !.error = e]
    /\ UNCHANGED <<OtherVars, gen>>

\* PyPDFLoader(temp_pdf_path).load() and the check for no pages
PdfLoad ==
    /\ pdf.pc = "load"
    /\ \/ pdf' = [pdf EXCEPT !.pc = "except", !.error = "other"]
       \/ \E documents \in SeqsUpTo(PageTexts, MaxPages) :
            IF documents = <<>>
            THEN pdf' = [pdf EXCEPT !.pc = "except", !.error = "value"]
            ELSE pdf' = [pdf EXCEPT !.pc = "split", !.documents = documents]
    /\ UNCHANGED <<OtherVars, gen>>

\* chunked_docs = text_splitter.split_documents(documents); enhanced_chunks = []
PdfSplit ==
    /\ pdf.pc = "split"
    /\ pdf' = [pdf EXCEPT !.pc = "loop", !.k = 1,
                          !.chunked_docs = SplitDocuments(pdf.documents)]
    /\ UNCHANGED <<OtherVars, gen>>

\* one pass of "for doc in chunked_docs"
PdfChunk ==
    /\ pdf.pc = "loop"
    /\ pdf.k <= Len(pdf.chunked_docs)
    /\ LET content == Strip(pdf.chunked_docs[pdf.k]) IN
       IF Len(content) < MinChunkLen
       THEN pdf' = [pdf EXCEPT !.k = @ + 1]
       ELSE pdf' = [pdf EXCEPT
                !.k = @ + 1,
                !.enhanced_chunks =
                    Append(@, EnhancedChunk(content, pdf.url, pdf.enhanced_chunks)),
                !.raw_length = Append(@, Len(content)),
                !.matching = Append(@, MatchingCategories(CleanContent(content)))]
    /\ UNCHANGED <<OtherVars, gen>>

\* return enhanced_chunks
PdfReturn ==
    /\ pdf.pc = "loop"
    /\ pdf.k > Len(pdf.chunked_docs)
    /\ pdf' = [pdf EXCEPT !.pc = "finally", !.outcome = "returned"]
    /\ UNCHANGED <<OtherVars, gen>>

\* the except clauses: each raises Exception(...) in place of what was caught
PdfExcept ==
    /\ pdf.pc = "except"
    /\ pdf' = [pdf EXCEPT !.pc = "finally", !.outcome = "raised"]
    /\ UNCHANGED <<OtherVars, gen>>

\* the finally clause, after which the call has ended
PdfFinally ==
    /\ pdf.pc = "finally"
    /\ pdf' = [pdf EXCEPT !.pc = "done", !.temp_file = RemoveTempFile(@)]
    /\ UNCHANGED <<OtherVars, gen>>

(* Specification: one call of process_document_from_url *)

InitIngest ==
    /\ req = [t \in Tasks |-> IdleTask]
    /\ served = 0
    /\ index_exists = FALSE
    /\ index_ready = FALSE
    /\ pinecone = [ns \in Namespaces |-> [c \in ChunkRecs |-> 0]]
    /\ document_metadata = [h \in Hashes |-> NoValue]
    /\ query_sessions = <<>>
    /\ query_history = <<>>
    /\ last_run = [u \in Locators |-> NoValue]
    /\ pdf \in {PdfCall(url) : url \in Locators \ {""}}
    /\ gen = NoValue

NextIngest ==
    \/ PdfCreateTemp \/ PdfDownload \/ PdfLoad \/ PdfSplit
    \/ PdfChunk \/ PdfReturn \/ PdfExcept \/ PdfFinally

SpecIngest == InitIngest /\ [][NextIngest]_vars

\* C11: when a call of process_document_from_url has ended, by returning or by
\* raising for whatever reason, its temporary file does not exist.
C11_TempFileRemoved == pdf.pc = "done" => ~pdf.temp_file

C11_Witness ==
    /\ pdf.pc = "done"
    /\ pdf.outcome = "raised"
    /\ pdf.error = "value"
    /\ ~pdf.temp_file

\* C12: a call of process_document_from_url that returns, returns at least one
\* chunk: a document without usable text ends the call with an exception.
C12_NoEmptySuccess ==
    (pdf.pc = "done" /\ pdf.outcome = "returned") => pdf.enhanced_chunks # <<>>

\* C13: every chunk the call has appended has a text of at least 40 and at most
\* 800 plus overlap characters, and its chunk_length is the length of that text.
C13_ChunkLengthBounds ==
    \A n \in 1..Len(pdf.enhanced_chunks) :
        LET doc == pdf.enhanced_chunks[n] IN
        /\ Len(doc.page_content) >= MinChunkLen
        /\ Len(doc.page_content) <= chunk_size + chunk_overlap
        /\ doc.chunk_length = Len(doc.page_content)

\* C20: every appended chunk carries all the categories one of whose keywords
\* occurs in its text, and 'general' exactly when none does.
C20_AllMatchingCategories ==
    \A n \in 1..Len(pdf.enhanced_chunks) :
        LET tags == {pdf.enhanced_chunks[n].category} IN
        IF pdf.matching[n] = {} THEN tags = {"general"}
        ELSE tags = pdf.matching[n]

-----------------------------------------------------------------------------
(* get_rag_chain: clean_and_validate_answer, and the quality check of the   *)
(* retry loop applied to its result                                         *)

ChainMinLen == 10      \* rag_chain.py:131
AnswerCeiling == 320   \* rag_chain.py:145
TruncateAt == 300      \* rag_chain.py:146

\* for a match of 'Rs\.?\s*(\d+)' that starts at i: where its number starts (0: no match at i)
RupeeNumber(s, i) ==
    IF ~StartsAt(s, i, <<"R", "s">>) THEN 0
    ELSE LET j == IF i + 2 <= Len(s) /\ s[i + 2] = "." THEN i + 3 ELSE i + 2
             d == IF j <= Len(s) /\ IsSpace(s[j]) THEN NextNonSpace(s, j) ELSE j
         IN IF d <= Len(s) /\ IsDigit(s[d]) THEN d ELSE 0

\* re.sub(r'Rs\.?\s*(\d+)', r'Rs. \1', s)
FixRupees(s) ==
    Join([p \in 1..Len(s) |->
            IF p > 1 /\ RupeeNumber(s, p - 1) # 0 THEN <<"s", ".", " ">>
            ELSE IF \E i \in 1..(p - 2) : i + 1 < p /\ p < RupeeNumber(s, i) THEN <<>>
            ELSE <<s[p]>>])

\* answer.endswith(('.', '!', '?'))
EndsSentence(s) == s # <<>> /\ s[Len(s)] \in {".", "!", "?"}

\* if not answer.endswith(('.', '!', '?')): answer += '.'
EnsureEnd(s) == IF EndsSentence(s) THEN s ELSE Append(s, ".")

\* if answer and answer[0].islower(): answer = answer[0].upper() + answer[1:]
Capitalize(s) ==
    IF s # <<>> /\ IsLower(s[1]) THEN <<UpperChar(s[1])>> \o Tail(s) ELSE s

\* Please note | It's important to note | According to the document, lowercased
HedgePhrases ==
    {<<"p", "l", "e", "a", "s", "e", " ", "n", "o", "t", "e">>,
     <<"i", "t", "'", "s", " ", "i", "m", "p", "o", "r", "t", "a", "n", "t", " ",
       "t", "o", " ", "n", "o", "t", "e">>,
     <<"a", "c", "c", "o", "r", "d", "i", "n", "g", " ", "t", "o", " ",
       "t", "h", "e", " ", "d", "o", "c", "u", "m", "e", "n", "t">>}

\* position p lies in a hedging clause: in a phrase or between it and the next full stop
InHedge(s, lower, p) ==
    \E i \in 1..p : \E ph \in HedgePhrases :
        /\ StartsAt(lower, i, ph)
        /\ \A q \in (i + Len(ph))..p : s[q] # "."

\* re.sub(r'(?:Please note|...).*?(?=\.|$)', '', s, flags=re.IGNORECASE)
RemoveHedges(s) ==
    LET lower == ToLower(s) IN
    Join([p \in 1..Len(s) |-> IF InHedge(s, lower, p) THEN <<>> ELSE <<s[p]>>])

\* s.rsplit('. ', 1)[0]
BeforeLastStop(s) ==
    LET P == {i \in 1..(Len(s) - 1) : s[i] = "." /\ s[i + 1] = " "} IN
    IF P = {} THEN s
    ELSE SubSeq(s, 1, (CHOOSE i \in P : \A j \in P : j <= i) - 1)

\* if len(answer) > 320: answer = answer[:300].rsplit('. ', 1)[0] + '.'
Truncate(s) ==
    IF Len(s) > AnswerCeiling
    THEN Append(BeforeLastStop(SubSeq(s, 1, TruncateAt)), ".")
    ELSE s

\* "This information is not specified in the policy document."
ChainSentinel ==
    <<"T", "h", "i", "s", " ", "i", "n", "f", "o", "r", "m", "a", "t", "i",
      "o", "n", " ", "i", "s", " ", "n", "o", "t", " ", "s", "p", "e", "c",
      "i", "f", "i", "e", "d", " ", "i", "n", " ", "t", "h", "e", " ", "p",
      "o", "l", "i", "c", "y", " ", "d", "o", "c", "u", "m", "e", "n", "t",
      ".">>

\* clean_and_validate_answer
CleanAndValidateAnswer(answer) ==
    IF Len(Strip(answer)) < ChainMinLen THEN ChainSentinel
    ELSE Truncate(Strip(NormalizeWhitespace(
             RemoveHedges(Capitalize(EnsureEnd(
                 FixRupees(FixPercent(NormalizeWhitespace(Strip(answer))))))))))

\* "not specified", "not detailed", "not mentioned", "not found", "not available",
\* "information is not"

generic_phrases ==
    {<<"n", "o", "t", " ", "s", "p", "e", "c", "i", "f", "i", "e", "d">>,
     <<"n", "o", "t", " ", "d", "e", "t", "a", "i", "l", "e", "d">>,
     <<"n", "o", "t", " ", "m", "e", "n", "t", "i", "o", "n", "e", "d">>,
     <<"n", "o", "t", " ", "f", "o", "u", "n", "d">>,
     <<"n", "o", "t", " ", "a", "v", "a", "i", "l", "a", "b", "l", "e">>,
     <<"i", "n", "f", "o", "r", "m", "a", "t", "i", "o", "n", " ", "i", "s", " ", "n", "o", "t">>}

\* any(phrase in answer.lower() for phrase in generic_phrases)
IsGeneric(answer) == \E phrase \in generic_phrases : Contains(ToLower(answer), phrase)

\* what the quality check of the retry loop reads of a text
Measured(answer) ==
    [origin |-> "model", len |-> Len(Strip(answer)), generic |-> IsGeneric(answer)]

(* Raw outputs of the language model *)

\* the empty text
RawEmpty == <<>>

\* "Yes."
RawYes ==
    <<"Y", "e", "s", ".">>

\* "the grace period is 30 days"
RawGrace ==
    <<"t", "h", "e", " ", "g", "r", "a", "c", "e", " ", "p", "e", "r", "i",
      "o", "d", " ", "i", "s", " ", "3", "0", " ", "d", "a", "y", "s">>

\* "Not found!"
RawNotFound ==
    <<"N", "o", "t", " ", "f", "o", "u", "n", "d", "!">>

\* "According to the document the premium is due. it must be paid within thirty days."
RawAccording ==
    <<"A", "c", "c", "o", "r", "d", "i", "n", "g", " ", "t", "o", " ", "t",
      "h", "e", " ", "d", "o", "c", "u", "m", "e", "n", "t", " ", "t", "h",
      "e", " ", "p", "r", "e", "m", "i", "u", "m", " ", "i", "s", " ", "d",
      "u", "e", ".", " ", "i", "t", " ", "m", "u", "s", "t", " ", "b", "e",
      " ", "p", "a", "i", "d", " ", "w", "i", "t", "h", "i", "n", " ", "t",
      "h", "i", "r", "t", "y", " ", "d", "a", "y", "s", ".">>

\* "The sum assured is five lakhs Please note this varies!"
RawPleaseNote ==
    <<"T", "h", "e", " ", "s", "u", "m", " ", "a", "s", "s", "u", "r", "e",
      "d", " ", "i", "s", " ", "f", "i", "v", "e", " ", "l", "a", "k", "h",
      "s", " ", "P", "l", "e", "a", "s", "e", " ", "n", "o", "t", "e", " ",
      "t", "h", "i", "s", " ", "v", "a", "r", "i", "e", "s", "!">>

\* "30 days is the grace period for premium payment."
RawNumberFirst ==
    <<"3", "0", " ", "d", "a", "y", "s", " ", "i", "s", " ", "t", "h", "e",
      " ", "g", "r", "a", "c", "e", " ", "p", "e", "r", "i", "o", "d", " ",
      "f", "o", "r", " ", "p", "r", "e", "m", "i", "u", "m", " ", "p", "a",
      "y", "m", "e", "n", "t", ".">>

\* "This is not mentioned in the policy."
RawNotMentioned ==
    <<"T", "h", "i", "s", " ", "i", "s", " ", "n", "o", "t", " ", "m", "e",
      "n", "t", "i", "o", "n", "e", "d", " ", "i", "n", " ", "t", "h", "e",
      " ", "p", "o", "l", "i", "c", "y", ".">>

\* "Premium is Rs 500 and bonus is 5 %"
RawRupees ==
    <<"P", "r", "e", "m", "i", "u", "m", " ", "i", "s", " ", "R", "s", " ",
      "5", "0", "0", " ", "a", "n", "d", " ", "b", "o", "n", "u", "s", " ",
      "i", "s", " ", "5", " ", "%">>

\* "It's important to note that riders are optional."
RawImportant ==
    <<"I", "t", "'", "s", " ", "i", "m", "p", "o", "r", "t", "a", "n", "t",
      " ", "t", "o", " ", "n", "o", "t", "e", " ", "t", "h", "a", "t", " ",
      "r", "i", "d", "e", "r", "s", " ", "a", "r", "e", " ", "o", "p", "t",
      "i", "o", "n", "a", "l", ".">>

\* "  Coverage   ends\nat maturity.  "
RawSpaced ==
    <<" ", " ", "C", "o", "v", "e", "r", "a", "g", "e", " ", " ", " ", "e",
      "n", "d", "s", "\n", "a", "t", " ", "m", "a", "t", "u", "r", "i", "t",
      "y", ".", " ", " ">>

\* "please note: waiting period is 2 years. otherwise it is covered in full."
RawLowerNote ==
    <<"p", "l", "e", "a", "s", "e", " ", "n", "o", "t", "e", ":", " ", "w",
      "a", "i", "t", "i", "n", "g", " ", "p", "e", "r", "i", "o", "d", " ",
      "i", "s", " ", "2", " ", "y", "e", "a", "r", "s", ".", " ", "o", "t",
      "h", "e", "r", "w", "i", "s", "e", " ", "i", "t", " ", "i", "s", " ",
      "c", "o", "v", "e", "r", "e", "d", " ", "i", "n", " ", "f", "u", "l",
      "l", ".">>

\* "The policy pays the sum assured on death. " nine times: 378 characters
RawLong == Repeat(<<"T", "h", "e", " ", "p", "o", "l", "i", "c", "y", " ", "p", "a", "y", "s", " ", "t", "h", "e", " ", "s", "u", "m", " ", "a", "s", "s", "u", "r", "e", "d", " ", "o", "n", " ", "d", "e", "a", "t", "h", ".", " ">>, 9)

\* "cover " 60 times: 360 characters without a full stop
RawRun == Repeat(<<"c", "o", "v", "e", "r", " ">>, 60)

RawOutputs ==
    {RawEmpty, RawYes, RawGrace, RawNotFound, RawAccording, RawPleaseNote,
     RawNumberFirst, RawNotMentioned, RawRupees, RawImportant, RawSpaced,
     RawLowerNote, RawLong, RawRun}

\* model_name of the three ChatGroq constructions, in the order they are tried
Models ==
    <<"meta-llama/llama-4-scout-17b-16e-instruct",
      "llama-3.3-70b-versatile",
      "llama-3.1-8b-instant">>

\* the locals of one attempt of the retry loop, before rag_chain.invoke
Attempt(attempt) ==
    [pc |-> "invoke", attempt |-> attempt, raw |-> <<>>, answer |-> <<>>,
     verdict |-> ""]

\* get_rag_chain is entered: no model constructed yet; down is the set of
\* models the provider cannot serve while the question is processed
ChainCall(down) ==
    [pc |-> "build", tried |-> 0, llm |-> "", down |-> down,
     attempt |-> 0, raw |-> <<>>, answer |-> <<>>, verdict |-> ""]

\* llm = ChatGroq(model_name=...): the construction succeeds and the chain is
\* built around that model, or it raises and the next construction is tried;
\* when the third raises, get_rag_chain raises
GenBuild ==
    /\ gen.pc = "build"
    /\ \/ gen' = [gen EXCEPT !.pc = "invoke", !.llm = Models[gen.tried + 1]]
       \/ gen' = [gen EXCEPT !.tried = @ + 1,
                             !.pc = IF gen.tried + 1 < Len(Models)
                                    THEN "build" ELSE "build_failed"]
    /\ UNCHANGED <<OtherVars, pdf>>

\* llm | StrOutputParser(): the model's text
GenOutput ==
    /\ gen.pc = "invoke"
    /\ gen.llm \notin gen.down
    /\ \E raw \in RawOutputs : gen' = [gen EXCEPT !.pc = "clean", !.raw = raw]
    /\ UNCHANGED <<OtherVars, pdf>>

\* rag_chain.invoke raises: the model of the chain is not served, or another step fails
GenRaise ==
    /\ gen.pc = "invoke"
    /\ gen' = [gen EXCEPT !.pc = "done", !.verdict = "failed"]
    /\ UNCHANGED <<OtherVars, pdf>>

\* ... | clean_and_validate_answer: what rag_chain.invoke returns
GenClean ==
    /\ gen.pc = "clean"
    /\ gen' = [gen EXCEPT !.pc = "check", !.answer = CleanAndValidateAnswer(gen.raw)]
    /\ UNCHANGED <<OtherVars, pdf>>

\* the quality check of the retry loop: the answer is returned, or the loop goes on
GenCheck ==
    /\ gen.pc = "check"
    /\ gen' = [gen EXCEPT !.pc = "done",
                          !.verdict = Verdict(Measured(gen.answer), gen.attempt)]
    /\ UNCHANGED <<OtherVars, pdf>>

\* continue, or the end of the except block: the next attempt invokes the same chain
GenRetry ==
    /\ gen.pc = "done"
    /\ gen.verdict # "accept"
    /\ gen.attempt < max_retries - 1
    /\ gen' = Attempt(NextAttempt(gen.attempt))
                  @@ [tried |-> gen.tried, llm |-> gen.llm, down |-> gen.down]
    /\ UNCHANGED <<OtherVars, pdf>>

(* Specification: get_rag_chain and the retry loop of one question, from the *)
(* choice of the model to the verdict on each attempt's text                 *)

InitAnswer ==
    /\ req = [t \in Tasks |-> IdleTask]
    /\ served = 0
    /\ index_exists = FALSE
    /\ index_ready = FALSE
    /\ pinecone = [ns \in Namespaces |-> [c \in ChunkRecs |-> 0]]
    /\ document_metadata = [h \in Hashes |-> NoValue]
    /\ query_sessions = <<>>
    /\ query_history = <<>>
    /\ last_run = [u \in Locators |-> NoValue]
    /\ pdf = NoValue
    /\ gen \in {ChainCall(down) : down \in SUBSET Range(Models)}

NextAnswer ==
    GenBuild \/ GenOutput \/ GenRaise \/ GenClean \/ GenCheck \/ GenRetry

SpecAnswer == InitAnswer /\ [][NextAnswer]_vars

\* C14: an answer the retry loop returns for a question, other than the fixed
\* "not specified" text, is longer than 15 and at most 320 characters, ends in
\* '.', '!' or '?' and starts with an uppercase letter, whatever the model wrote.
C14_AcceptedAnswerShape ==
    (gen.pc = "done" /\ gen.verdict = "accept" /\ gen.answer # ChainSentinel)
        => /\ Len(gen.answer) > MinAnswerLen
           /\ Len(gen.answer) <= AnswerCeiling
           /\ EndsSentence(gen.answer)
           /\ IsUpper(gen.answer[1])

-----------------------------------------------------------------------------
(* Properties of the retry loop and of the question loop *)

\* the generation of task t has just ended with a text that was then checked
Checked(t) ==
    /\ req[t].pc = "q_invoking"
    /\ req'[t].pc \in {"q_log_ok", "q_attempt"}

\* C17: on every attempt, the first, the second and the last alike, a generated
\* answer passes the check of the retry loop if and only if its stripped length
\* is above 15 and it is not both generic and shorter than 100 characters.
C17_SameRuleEveryAttempt ==
    [][\A t \in Tasks :
          Checked(t) =>
             (req'[t].pc = "q_log_ok"
                <=> /\ req'[t].answer.len > MinAnswerLen
                    /\ ~(req'[t].answer.generic
                           /\ req'[t].answer.len < GenericLenLimit))]_vars

\* C17, amended: that rule holds on the attempts before the last; on the last
\* attempt a generated answer passes if and only if its stripped length is
\* above 15, so a short generic answer passes there.
C17_RuleRelaxedOnLastAttempt ==
    [][\A t \in Tasks :
          Checked(t) =>
             (req'[t].pc = "q_log_ok"
                <=> /\ req'[t].answer.len > MinAnswerLen
                    /\ \/ ~(req'[t].answer.generic
                              /\ req'[t].answer.len < GenericLenLimit)
                       \/ req[t].attempt = max_retries - 1)]_vars

C17_Witness ==
    \E t \in Tasks :
        /\ req[t].pc = "q_log_ok"
        /\ req[t].attempt = max_retries - 1
        /\ req[t].answer.generic
        /\ req[t].answer.len < GenericLenLimit
        /\ req[t].rejected = max_retries

\* C18: the questions of a request are processed one after the other in list
\* order: while question i is being processed the calls for questions 1..i-1,
\* and no others, have returned, in that order; a first attempt starts with no
\* generation call of the request in progress, and never are two in progress.
C18_QuestionsSequential ==
    \A t \in Tasks :
        /\ req[t].in_flight <= 1
        /\ req[t].in_flight = 1 <=> req[t].pc = "q_invoking"
        /\ req[t].pc \in {"q_attempt", "q_invoke", "q_invoking", "q_log_ok",
                          "q_except", "q_log_fail"}
              => /\ req[t].i \in 1..Len(req[t].questions)
                 /\ Len(req[t].results) = req[t].i - 1
                 /\ Len(req[t].answers) = req[t].i - 1
                 /\ \A k \in 1..Len(req[t].results) :
                        req[t].results[k].question_number = k

C18_Witness ==
    \E t \in Tasks :
        /\ req[t].pc = "q_invoking"
        /\ req[t].i = 2
        /\ req[t].attempt = 0
        /\ Len(req[t].results) = 1
        /\ req[t].results[1].text \in ModelOutputs

\* C21: a question is given up because the model of its chain is not served
\* only when no model of the fallback chain is served: while the secondary or
\* the tertiary model is available, the question is answered by it.
C21_FallbackWhenUnavailable ==
    (/\ gen.pc = "done"
     /\ gen.verdict = "failed"
     /\ gen.attempt = max_retries - 1
     /\ gen.llm \in gen.down)
        => Range(Models) \subseteq gen.down

-----------------------------------------------------------------------------
(* The audit trail of the answers *)

\* the rows of query_history written for question i of session sid
RowsOf(sid, i) ==
    {k \in 1..Len(query_history) :
        /\ query_history[k].session_id = sid
        /\ query_history[k].question_number = i}

\* the attempts that came before the returned text: the earlier attempts for a
\* text of the model, all of them for a fixed text
Preceding(r) ==
    IF r.answer \in ModelOutputs THEN r.invocations - 1 ELSE r.invocations

\* C22: whenever process_single_question_with_retries_and_logging returns a
\* text for the response, query_history holds exactly one row for that question
\* of the session, and the row carries the question, the returned text and the
\* number of attempts that preceded it.
C22_ReturnedAnswerLoggedOnce ==
    \A t \in Tasks :
        req[t].pc = "q_returned" =>
            /\ Cardinality(RowsOf(req[t].session_id, req[t].i)) = 1
            /\ \A k \in RowsOf(req[t].session_id, req[t].i) :
                  /\ query_history[k].question = Strip(req[t].questions[req[t].i])
                  /\ query_history[k].answer = req[t].answer
                  /\ query_history[k].retry_count = Preceding(req[t])

-----------------------------------------------------------------------------
(* The life of a session record *)

\* select(QuerySession).where(QuerySession.session_id == session_id)
SessionRows(sid) ==
    {k \in 1..Len(query_sessions) : query_sessions[k].session_id = sid}

\* the steps whose except block marks the session "failed"
FailedStages == {"ingestion", "indexing", "chain"}

\* C23: when a request that created a session record has ended, with a response
\* or an error, and its last status update was written, the record's status is
\* "completed", "failed" or "error"; it is "completed" only if the response
\* holds an answer for every question of the request, and "failed" only if
\* ingestion, indexing or chain construction failed.
C23_SessionEndsTerminal ==
    \A t \in Tasks :
        (/\ req[t].pc = "responded"
         /\ req[t].session_id # 0
         /\ req[t].exc # "unhandled")
            => /\ SessionRows(req[t].session_id) # {}
               /\ \A k \in SessionRows(req[t].session_id) :
                    /\ query_sessions[k].status \in {"completed", "failed", "error"}
                    /\ query_sessions[k].status = "completed" =>
                          /\ req[t].response.status = 200
                          /\ Len(req[t].response.answers) = Len(req[t].questions)
                          /\ Len(req[t].results) = Len(req[t].questions)
                    /\ query_sessions[k].status = "failed" =>
                          /\ req[t].failed_stage \in FailedStages
                          /\ req[t].response.status \in {400, 500}

\* a request answered every question and its session is marked completed
C23_Witness ==
    \E t \in Tasks :
        /\ req[t].pc = "responded"
        /\ req[t].session_id # 0
        /\ req[t].response.status = 200
        /\ Len(req[t].response.answers) = Len(req[t].questions)
        /\ \E k \in SessionRows(req[t].session_id) :
              query_sessions[k].status = "completed"

====
